---- MODULE Spec2Model ----
(***************************************************************************)
(* Model of scripts/05_visualize.py: the import-time folium probe, the     *)
(* loader, the five renderers and main(), over a file system made of the   *)
(* processed_data/ GeoJSON file and the outputs/ directory.                *)
(*                                                                         *)
(* A numeric cell is <<>> when missing (NaN) and <<v>> otherwise; a        *)
(* missing urban_class is the marker NaN.  A table is a sequence of rows.  *)
(* The geometry of a response area (used only to centre a map) is not      *)
(* modelled; every GeoJSON table has at least one row.                     *)
(***************************************************************************)
EXTENDS Integers, Sequences, FiniteSets, TLC

VARIABLES
  foliumInstalled,  \* environment: "import folium" succeeds
  mplRejectsNaN,    \* environment: Axes.bar raises on a NaN among str labels
  geojson,          \* processed_data/response_areas_final.geojson
  dirExists,        \* outputs/ exists
  outputs,          \* outputs/: file name -> content
  HAS_FOLIUM,       \* module global
  pc,               \* position of the process in main()
  ra,               \* main's ResponseArea table
  summary_urban,    \* main's UrbanClassSummary table
  notices,          \* informational "folium missing" lines printed by the run
  warnings,         \* "Warning: No valid data" lines printed by the run
  written,          \* files saved by the current run
  listing,          \* file names printed by the final listing
  lastOutcome       \* how the previous run ended ("none" before the first)

vars == <<foliumInstalled, mplRejectsNaN, geojson, dirExists, outputs,
          HAS_FOLIUM, pc, ra, summary_urban, notices, warnings, written,
          listing, lastOutcome>>

env == <<foliumInstalled, mplRejectsNaN, geojson>>

-----------------------------------------------------------------------------
(* Bounds *)

MaxRows == 2         \* rows of a GeoJSON table drawn from RunRows
MaxRichRows == 1     \* rows of a GeoJSON table drawn from RichRows
MaxSummary == 3      \* rows of an UrbanClassSummary table

-----------------------------------------------------------------------------
(* Values *)

NA == <<>>
NaN == "NaN"
\* A file of processed_data/: absent, not parsable, or holding a table.
Absent == [state |-> "absent", rows |-> <<>>]
Unparsable == [state |-> "unparsable", rows |-> <<>>]
GeoFile(rows) == [state |-> "ok", rows |-> rows]

notna(cell) == cell # NA
gt(cell, k) == notna(cell) /\ cell[1] > k

CSV_URBAN == "summary_by_urban_class.csv"
CSV_HOUSING == "summary_by_housing_type.csv"
MAP_PER_CAPITA == "map_incidents_per_capita.html"
MAP_CLASSIFICATION == "map_urban_classification.html"
MAP_HOUSING == "map_housing_typology.html"
CHART_URBAN == "chart_urban_comparison.png"
CHART_HOUSING == "chart_housing_correlation.png"
TABLE_SUMMARY == "table_summary.png"

MapFiles == {MAP_PER_CAPITA, MAP_CLASSIFICATION, MAP_HOUSING}

Put(dir, name, content) ==
  [f \in (DOMAIN dir) \cup {name} |-> IF f = name THEN content ELSE dir[f]]

RECURSIVE Concat(_)
Concat(ss) == IF ss = <<>> THEN <<>> ELSE Head(ss) \o Concat(Tail(ss))

Range(s) == {s[i] : i \in DOMAIN s}

-----------------------------------------------------------------------------
(* create_choropleth_map *)

\* gdf[gdf[column].notna() & (gdf[column] > 0)]: the kept rows, in order.
valid_gdf_nonneg(gdf, column) ==
  SelectSeq(gdf, LAMBDA r : notna(r[column]) /\ r[column][1] >= 0)

valid_gdf(gdf, column) ==
  SelectSeq(gdf, LAMBDA r : notna(r[column]) /\ gt(r[column], 0))

Feature(r, column) ==
  [response_area_id |-> r.response_area_id, value |-> r[column],
   population |-> r.population, urban_class |-> r.urban_class]

\* The document the function saves: the Choropleth layer (geo_data and data
\* are both valid_gdf, joined on response_area_id) and the tooltip GeoJson
\* layer.
ChoroplethDoc(valid, column) ==
  [kind |-> "choropleth", column |-> column,
   choropleth |->
     [features |-> [i \in 1..Len(valid) |-> Feature(valid[i], column)],
      data |-> [i \in 1..Len(valid) |->
                  <<valid[i].response_area_id, valid[i][column]>>]],
   tooltip |-> [i \in 1..Len(valid) |-> Feature(valid[i], column)]]

NoDoc == [kind |-> "none"]

create_choropleth_map_saveEmpty(gdf, column, has_folium) ==
  IF ~has_folium
    THEN [notice |-> 1, warning |-> 0, saved |-> FALSE, doc |-> NoDoc]
    ELSE [notice |-> 0, warning |-> 0, saved |-> TRUE,
          doc |-> ChoroplethDoc(valid_gdf(gdf, column), column)]

create_choropleth_map(gdf, column, has_folium) ==
  IF ~has_folium
    THEN [notice |-> 1, warning |-> 0, saved |-> FALSE, doc |-> NoDoc]
    ELSE LET valid == valid_gdf(gdf, column) IN
         IF Len(valid) = 0
           THEN [notice |-> 0, warning |-> 1, saved |-> FALSE, doc |-> NoDoc]
           ELSE [notice |-> 0, warning |-> 0, saved |-> TRUE,
                 doc |-> ChoroplethDoc(valid, column)]

-----------------------------------------------------------------------------
(* create_categorical_map *)

colors ==
  [urban_core |-> "#d62728", inner_suburban |-> "#ff7f0e",
   outer_suburban |-> "#2ca02c", unknown |-> "#7f7f7f"]

\* colors.get(category) without the default: None for an unmapped category.
style_function_noDefault(category) ==
  IF category \in DOMAIN colors THEN colors[category] ELSE "None"

\* colors.get(category, '#7f7f7f'); a missing value is the key None.
style_function(category) ==
  IF category \in DOMAIN colors THEN colors[category] ELSE "#7f7f7f"

create_categorical_map(gdf, column, has_folium) ==
  IF ~has_folium
    THEN [notice |-> 1, saved |-> FALSE, doc |-> NoDoc]
    ELSE [notice |-> 0, saved |-> TRUE,
          doc |-> [kind |-> "categorical",
                   features |->
                     [i \in 1..Len(gdf) |->
                        [response_area_id |-> gdf[i].response_area_id,
                         category |-> gdf[i][column],
                         fillColor |-> style_function(gdf[i][column])]]]]

-----------------------------------------------------------------------------
(* create_bar_chart *)

order == <<"urban_core", "inner_suburban", "outer_suburban">>

\* pd.Categorical(values, categories=order): a value outside the categories
\* becomes NaN.
Categorical(c) == IF c \in Range(order) THEN c ELSE NaN

\* Sort key of a categorical value: its code, NaN last (na_position='last').
Code(c) ==
  IF c \in Range(order)
    THEN CHOOSE k \in DOMAIN order : order[k] = c
    ELSE Len(order) + 1

\* sort_values('urban_class'): the default sort is not stable, so any
\* arrangement that is sorted by code is a possible result.
SortOrders(df) ==
  {p \in Permutations(DOMAIN df) :
     \A i, j \in DOMAIN df :
       i < j => Code(df[p[i]].urban_class) <= Code(df[p[j]].urban_class)}

labels ==
  [urban_core |-> "Urban Core\n(>10k/sq mi)",
   inner_suburban |-> "Inner Suburban\n(3-10k/sq mi)",
   outer_suburban |-> "Outer Suburban\n(<3k/sq mi)"]

labels_get(c) == IF c \in DOMAIN labels THEN labels[c] ELSE c

bar_colors == <<"#d62728", "#ff7f0e", "#2ca02c">>

\* Axes.bar(x, height, color=list): bar i takes the i-th colour, cycling.
Bars(df, x_labels, column) ==
  [i \in 1..Len(df) |->
     [x |-> x_labels[i], height |-> df[i][column],
      color |-> bar_colors[((i - 1) % Len(bar_colors)) + 1]]]

\* A categorical axis (some str label) given a float NaN label.
MixedLabels(x_labels) ==
  /\ \E i \in DOMAIN x_labels : x_labels[i] = NaN
  /\ \E i \in DOMAIN x_labels : x_labels[i] # NaN

\* p is the arrangement sort_values produced.  caller_df is the table object
\* the caller passed, after the in-place column assignment.
create_bar_chart(summary_df, p, rejectsNaN) ==
  LET typed == [i \in DOMAIN summary_df |->
                  [summary_df[i] EXCEPT !.urban_class = Categorical(@)]]
      sorted == [i \in DOMAIN typed |-> typed[p[i]]]
      x_labels == [i \in DOMAIN sorted |-> labels_get(sorted[i].urban_class)]
  IN [caller_df |-> typed,
      raised |-> rejectsNaN /\ MixedLabels(x_labels),
      doc |-> [kind |-> "bar",
               bars1 |-> Bars(sorted, x_labels, "incidents_per_1000_pop"),
               bars2 |-> Bars(sorted, x_labels, "pct_single_family")]]

-----------------------------------------------------------------------------
(* create_scatter_plot *)

scatter_valid(gdf) ==
  SelectSeq(gdf, LAMBDA r :
    /\ gt(r.population, 100)
    /\ notna(r.pct_single_family)
    /\ notna(r.incidents_per_1000_pop)
    /\ r.urban_class # "unknown")

\* One ax.scatter call per entry of the colors dict, in its order.
Bubbles(valid) ==
  Concat([k \in DOMAIN order |->
    LET subset == SelectSeq(valid, LAMBDA r : r.urban_class = order[k])
    IN [i \in 1..Len(subset) |->
          [response_area_id |-> subset[i].response_area_id,
           x |-> subset[i].pct_single_family,
           y |-> subset[i].incidents_per_1000_pop,
           population |-> subset[i].population,
           c |-> colors[order[k]]]]])

\* The points handed to stats.linregress.
FitPoints(valid) ==
  [i \in 1..Len(valid) |->
     [response_area_id |-> valid[i].response_area_id,
      x |-> valid[i].pct_single_family,
      y |-> valid[i].incidents_per_1000_pop]]

\* stats.linregress raises ValueError on empty input and when all x are
\* identical (more than one point).
LinregressRaises(pts) ==
  \/ Len(pts) = 0
  \/ Len(pts) > 1 /\ \A i, j \in DOMAIN pts : pts[i].x = pts[j].x

create_scatter_plot(gdf) ==
  LET valid == scatter_valid(gdf) IN
  [raised |-> LinregressRaises(FitPoints(valid)),
   doc |-> [kind |-> "scatter", bubbles |-> Bubbles(valid),
            fit |-> FitPoints(valid)]]

-----------------------------------------------------------------------------
(* create_summary_table_image *)

\* The Classification column of cellText: the urban_class of every row of
\* the table it is given, in order.
create_summary_table_image(summary_df) ==
  [kind |-> "table",
   cellText |-> [i \in DOMAIN summary_df |-> summary_df[i].urban_class]]

-----------------------------------------------------------------------------
(* main: the sequence of its statements *)

Ended == {"done", "aborted"}

\* main with the two chart calls exchanged.
NextStep_chartsSwapped(here) ==
  CASE here = "import" -> "load"
    [] here = "load" -> "makedirs"
    [] here = "makedirs" -> "maps"
    [] here = "map1" -> "map2"
    [] here = "map2" -> "map3"
    [] here = "map3" -> "scatter"
    [] here = "scatter" -> "bar"
    [] here = "bar" -> "table"
    [] here = "table" -> "listing"
    [] here = "listing" -> "done"

\* The statement main runs after the one at "here" returns normally.
NextStep(here) ==
  CASE here = "import" -> "load"
    [] here = "load" -> "makedirs"
    [] here = "makedirs" -> "maps"
    [] here = "map1" -> "map2"
    [] here = "map2" -> "map3"
    [] here = "map3" -> "bar"
    [] here = "bar" -> "scatter"
    [] here = "scatter" -> "table"
    [] here = "table" -> "listing"
    [] here = "listing" -> "done"

\* try: import folium / except ImportError, at module import.
Import ==
  /\ pc = "import"
  /\ HAS_FOLIUM' = foliumInstalled
  /\ notices' = IF foliumInstalled THEN notices ELSE notices + 1
  /\ pc' = NextStep("import")
  /\ UNCHANGED <<env, dirExists, outputs, ra, summary_urban, warnings,
                 written, listing, lastOutcome>>

Readable(file) == file.state = "ok"

\* load_data: any of the three reads raising ends the process.
load_data ==
  /\ pc = "load"
  /\ IF /\ Readable(geojson)
        /\ dirExists
        /\ CSV_URBAN \in DOMAIN outputs
        /\ CSV_HOUSING \in DOMAIN outputs
       THEN /\ ra' = geojson.rows
            /\ summary_urban' = outputs[CSV_URBAN].rows
            /\ pc' = NextStep("load")
       ELSE /\ pc' = "aborted"
            /\ UNCHANGED <<ra, summary_urban>>
  /\ UNCHANGED <<env, dirExists, outputs, HAS_FOLIUM, notices, warnings,
                 written, listing, lastOutcome>>

\* os.makedirs("outputs") without exist_ok: raises when the directory exists.
Makedirs_noExistOk ==
  /\ pc = "makedirs"
  /\ IF dirExists THEN pc' = "aborted" ELSE pc' = NextStep("makedirs")
  /\ dirExists' = TRUE
  /\ UNCHANGED <<env, outputs, HAS_FOLIUM, ra, summary_urban, notices,
                 warnings, written, listing, lastOutcome>>

\* os.makedirs("outputs", exist_ok=True)
Makedirs ==
  /\ pc = "makedirs"
  /\ dirExists' = TRUE
  /\ pc' = NextStep("makedirs")
  /\ UNCHANGED <<env, outputs, HAS_FOLIUM, ra, summary_urban, notices,
                 warnings, written, listing, lastOutcome>>

\* main calling the three map functions whatever HAS_FOLIUM is.
MainGate_ungated ==
  /\ pc = "maps"
  /\ pc' = "map1"
  /\ UNCHANGED <<env, dirExists, outputs, HAS_FOLIUM, ra, summary_urban,
                 notices, warnings, written, listing, lastOutcome>>

\* if HAS_FOLIUM: (the three maps) else: print("Skipping interactive maps")
MainGate ==
  /\ pc = "maps"
  /\ IF HAS_FOLIUM
       THEN /\ pc' = "map1"
            /\ UNCHANGED notices
       ELSE /\ pc' = NextStep("map3")
            /\ notices' = notices + 1
  /\ UNCHANGED <<env, dirExists, outputs, HAS_FOLIUM, ra, summary_urban,
                 warnings, written, listing, lastOutcome>>

ChoroplethStep(here, column, filename) ==
  /\ pc = here
  /\ LET r == create_choropleth_map(ra, column, HAS_FOLIUM) IN
       /\ notices' = notices + r.notice
       /\ warnings' = warnings + r.warning
       /\ outputs' = IF r.saved THEN Put(outputs, filename, r.doc) ELSE outputs
       /\ written' = IF r.saved THEN written \cup {filename} ELSE written
  /\ pc' = NextStep(here)
  /\ UNCHANGED <<env, dirExists, HAS_FOLIUM, ra, summary_urban, listing,
                 lastOutcome>>

MapPerCapita == ChoroplethStep("map1", "incidents_per_1000_pop", MAP_PER_CAPITA)

MapClassification ==
  /\ pc = "map2"
  /\ LET r == create_categorical_map(ra, "urban_class", HAS_FOLIUM) IN
       /\ notices' = notices + r.notice
       /\ outputs' = IF r.saved
                       THEN Put(outputs, MAP_CLASSIFICATION, r.doc)
                       ELSE outputs
       /\ written' = IF r.saved
                       THEN written \cup {MAP_CLASSIFICATION}
                       ELSE written
  /\ pc' = NextStep("map2")
  /\ UNCHANGED <<env, dirExists, HAS_FOLIUM, ra, summary_urban, warnings,
                 listing, lastOutcome>>

MapHousing == ChoroplethStep("map3", "pct_single_family", MAP_HOUSING)

\* create_bar_chart(summary_urban, ...): the column assignment changes main's
\* table whether or not the plotting call then raises.
BarChart ==
  /\ pc = "bar"
  /\ \E p \in SortOrders([i \in DOMAIN summary_urban |->
                            [summary_urban[i] EXCEPT
                               !.urban_class = Categorical(@)]]) :
       LET r == create_bar_chart(summary_urban, p, mplRejectsNaN) IN
         /\ summary_urban' = r.caller_df
         /\ IF r.raised
              THEN /\ pc' = "aborted"
                   /\ UNCHANGED <<outputs, written>>
              ELSE /\ pc' = NextStep("bar")
                   /\ outputs' = Put(outputs, CHART_URBAN, r.doc)
                   /\ written' = written \cup {CHART_URBAN}
  /\ UNCHANGED <<env, dirExists, HAS_FOLIUM, ra, notices, warnings, listing,
                 lastOutcome>>

ScatterPlot ==
  /\ pc = "scatter"
  /\ LET r == create_scatter_plot(ra) IN
       IF r.raised
         THEN /\ pc' = "aborted"
              /\ UNCHANGED <<outputs, written>>
         ELSE /\ pc' = NextStep("scatter")
              /\ outputs' = Put(outputs, CHART_HOUSING, r.doc)
              /\ written' = written \cup {CHART_HOUSING}
  /\ UNCHANGED <<env, dirExists, HAS_FOLIUM, ra, summary_urban, notices,
                 warnings, listing, lastOutcome>>

TableImage ==
  /\ pc = "table"
  /\ outputs' = Put(outputs, TABLE_SUMMARY,
                    create_summary_table_image(summary_urban))
  /\ written' = written \cup {TABLE_SUMMARY}
  /\ pc' = NextStep("table")
  /\ UNCHANGED <<env, dirExists, HAS_FOLIUM, ra, summary_urban, notices,
                 warnings, listing, lastOutcome>>

\* os.listdir("outputs"): every file present, not only this run's.
Listing ==
  /\ pc = "listing"
  /\ listing' = DOMAIN outputs
  /\ pc' = NextStep("listing")
  /\ UNCHANGED <<env, dirExists, outputs, HAS_FOLIUM, ra, summary_urban,
                 notices, warnings, written, lastOutcome>>

\* The script is started again: a new process over the same file system.
Rerun ==
  /\ pc \in Ended
  /\ pc' = "import"
  /\ lastOutcome' = pc
  /\ HAS_FOLIUM' = FALSE
  /\ ra' = <<>>
  /\ summary_urban' = <<>>
  /\ notices' = 0
  /\ warnings' = 0
  /\ written' = {}
  /\ listing' = {}
  /\ UNCHANGED <<env, dirExists, outputs>>

Next ==
  \/ Import
  \/ load_data
  \/ Makedirs
  \/ MainGate
  \/ MapPerCapita
  \/ MapClassification
  \/ MapHousing
  \/ BarChart
  \/ ScatterPlot
  \/ TableImage
  \/ Listing
  \/ Rerun

-----------------------------------------------------------------------------
(* Inputs *)

Classes == {"urban_core", "inner_suburban", "outer_suburban", "unknown"}

\* Every combination of present, missing and boundary cells.
RichRows ==
  [population : {NA, <<100>>, <<500>>},
   incidents_per_1000_pop : {NA, <<-1>>, <<0>>, <<2>>},
   pct_single_family : {NA, <<0>>, <<40>>},
   urban_class : Classes \cup {NaN, "rural"}]

\* A row every filter keeps.
AnchorRow ==
  [population |-> <<500>>, incidents_per_1000_pop |-> <<2>>,
   pct_single_family |-> <<40>>, urban_class |-> "urban_core"]

\* A few representative rows for whole runs.
RunRows ==
  {AnchorRow,
   [population |-> <<500>>, incidents_per_1000_pop |-> <<0>>,
    pct_single_family |-> <<0>>, urban_class |-> "outer_suburban"],
   [population |-> NA, incidents_per_1000_pop |-> NA,
    pct_single_family |-> NA, urban_class |-> "unknown"]}

WithId(r, i) ==
  [response_area_id |-> i, population |-> r.population,
   incidents_per_1000_pop |-> r.incidents_per_1000_pop,
   pct_single_family |-> r.pct_single_family, urban_class |-> r.urban_class]

\* The table of the rows of pre followed by those of f; response_area_id
\* is the position of the row.
GeoTable(pre, f) ==
  [i \in 1..(Len(pre) + Len(f)) |->
     WithId(IF i <= Len(pre) THEN pre[i] ELSE f[i - Len(pre)], i)]

SummaryRows(classes, rates) ==
  [urban_class : classes, incidents_per_1000_pop : rates,
   pct_single_family : {40}]

GoodSummary ==
  <<[urban_class |-> "outer_suburban", incidents_per_1000_pop |-> 7,
     pct_single_family |-> 40],
    [urban_class |-> "urban_core", incidents_per_1000_pop |-> 3,
     pct_single_family |-> 40],
    [urban_class |-> "inner_suburban", incidents_per_1000_pop |-> 3,
     pct_single_family |-> 40]>>

Csv(rows) == [kind |-> "csv", rows |-> rows]
Stale == [kind |-> "stale"]

\* outputs/ with both summaries and files left behind by something else.
FullDir(summary) ==
  [f \in {CSV_URBAN, CSV_HOUSING, "statistical_tests.txt", MAP_HOUSING} |->
     IF f = CSV_URBAN THEN Csv(summary)
     ELSE IF f = CSV_HOUSING THEN Csv(<<>>)
     ELSE Stale]

FreshProcess ==
  /\ HAS_FOLIUM = FALSE
  /\ pc = "import"
  /\ ra = <<>>
  /\ summary_urban = <<>>
  /\ notices = 0
  /\ warnings = 0
  /\ written = {}
  /\ listing = {}
  /\ lastOutcome = "none"

\* Whole runs over any state of the file system.
Init ==
  /\ foliumInstalled \in BOOLEAN
  /\ mplRejectsNaN \in BOOLEAN
  /\ \/ geojson \in {Absent, Unparsable}
     \/ \E n \in 1..MaxRows : \E f \in [1..n -> RunRows] :
          geojson = GeoFile(GeoTable(<<>>, f))
  /\ \/ /\ dirExists = FALSE
        /\ outputs = <<>>
     \/ /\ dirExists = TRUE
        /\ outputs \in {<<>>, [f \in {CSV_URBAN} |-> Csv(GoodSummary)]}
     \/ /\ dirExists = TRUE
        /\ \E n \in 1..MaxSummary :
             \E s \in [1..n -> SummaryRows({"urban_core", "unknown"}, {3})] :
               outputs = FullDir(s)
  /\ FreshProcess

\* Every kind of ResponseArea row, with a well-formed summary.
InitRows ==
  /\ foliumInstalled = TRUE
  /\ mplRejectsNaN = TRUE
  /\ \/ \E n \in 1..MaxRichRows : \E f \in [1..n -> RichRows] :
          geojson = GeoFile(GeoTable(<<>>, f))
     \/ \E r \in RichRows : geojson = GeoFile(GeoTable(<<AnchorRow>>, <<r>>))
  /\ dirExists = TRUE
  /\ outputs = FullDir(GoodSummary)
  /\ FreshProcess

\* Every kind of UrbanClassSummary table, with a well-formed GeoJSON table.
InitSummary ==
  /\ foliumInstalled = TRUE
  /\ mplRejectsNaN \in BOOLEAN
  /\ geojson = GeoFile(GeoTable(<<AnchorRow>>, <<>>))
  /\ dirExists = TRUE
  /\ \E n \in 1..MaxSummary :
       \E s \in [1..n -> SummaryRows(Classes, {3, 7})] :
         outputs = FullDir(s)
  /\ FreshProcess

Spec == Init /\ [][Next]_vars
SpecRows == InitRows /\ [][Next]_vars
SpecSummary == InitSummary /\ [][Next]_vars

-----------------------------------------------------------------------------
(* Properties *)

\* The tables as load_data read them.
LoadedSummary == outputs[CSV_URBAN].rows

Ids(layer) == {layer[i].response_area_id : i \in DOMAIN layer}

Count(seq, Test(_)) == Cardinality({i \in DOMAIN seq : Test(seq[i])})

\* C1: in a choropleth map the run saved, a row of the table whose metric is
\* missing or <= 0 is in neither the Choropleth layer nor the tooltip layer,
\* and a row whose metric is > 0 is in both, once.
C1_ChoroplethKeepsPositiveRows ==
  \A f \in written \cap {MAP_PER_CAPITA, MAP_HOUSING} :
    LET doc == outputs[f] IN
    \A i \in DOMAIN ra :
      LET id == ra[i].response_area_id
          n1 == Count(doc.choropleth.features,
                      LAMBDA x : x.response_area_id = id)
          nd == Count(doc.choropleth.data, LAMBDA x : x[1] = id)
          n2 == Count(doc.tooltip, LAMBDA x : x.response_area_id = id)
      IN IF notna(ra[i][doc.column]) /\ ra[i][doc.column][1] > 0
           THEN n1 = 1 /\ nd = 1 /\ n2 = 1
           ELSE n1 = 0 /\ nd = 0 /\ n2 = 0

\* A saved per-capita map of a table with a kept row and a dropped row.
C1_Witness ==
  /\ MAP_PER_CAPITA \in written
  /\ \E i \in DOMAIN ra : gt(ra[i].incidents_per_1000_pop, 0)
  /\ \E i \in DOMAIN ra : ra[i].incidents_per_1000_pop \in {NA, <<-1>>, <<0>>}

ClaimEligible(r) ==
  /\ notna(r.population) /\ r.population[1] > 100
  /\ notna(r.pct_single_family)
  /\ notna(r.incidents_per_1000_pop)
  /\ r.urban_class \notin {"unknown", NaN}

\* C2: in a saved scatter plot every row of the linear fit has population
\* > 100, both metrics present and an urban_class that is neither 'unknown'
\* nor missing, and every other row is neither a bubble nor a point of the fit.
C2_FitRowsAreEligible ==
  CHART_HOUSING \in written =>
    \A i \in DOMAIN ra :
      LET id == ra[i].response_area_id
          doc == outputs[CHART_HOUSING]
      IN /\ id \in Ids(doc.fit) => ClaimEligible(ra[i])
         /\ ~ClaimEligible(ra[i]) =>
              id \notin Ids(doc.fit) /\ id \notin Ids(doc.bubbles)

LabelClass(x) ==
  IF \E c \in DOMAIN labels : labels[c] = x
    THEN CHOOSE c \in DOMAIN labels : labels[c] = x
    ELSE NaN

PanelIsNamedRowsInOrder(bars, column) ==
  /\ Len(bars) = Count(LoadedSummary, LAMBDA r : r.urban_class \in Range(order))
  /\ \A i \in DOMAIN bars : LabelClass(bars[i].x) \in Range(order)
  /\ \A c \in Range(order) : \A h \in {3, 7} :
       Count(bars, LAMBDA b : LabelClass(b.x) = c /\ b.height = h)
         = Count(LoadedSummary, LAMBDA r : r.urban_class = c /\ r[column] = h)
  /\ \A i, j \in DOMAIN bars :
       i < j => Code(LabelClass(bars[i].x)) <= Code(LabelClass(bars[j].x))

\* C3: in each panel of a saved bar chart the bars are exactly the rows of
\* the loaded summary whose urban_class is urban_core, inner_suburban or
\* outer_suburban, in that order; a row of any other class has no bar.
C3_BarsAreNamedRowsInOrder ==
  CHART_URBAN \in written =>
    /\ PanelIsNamedRowsInOrder(outputs[CHART_URBAN].bars1,
                               "incidents_per_1000_pop")
    /\ \A i \in DOMAIN outputs[CHART_URBAN].bars2 :
         LabelClass(outputs[CHART_URBAN].bars2[i].x) \in Range(order)
    /\ Len(outputs[CHART_URBAN].bars2) = Len(outputs[CHART_URBAN].bars1)

OneRowPerClass(df) ==
  \A i, j \in DOMAIN df : df[i].urban_class = df[j].urban_class => i = j

\* C4: in both panels of a saved bar chart of a summary with at most one row
\* per class, a bar labelled with a class has the colour the categorical map
\* gives that class.
C4_BarColourIsClassColour ==
  (CHART_URBAN \in written /\ OneRowPerClass(LoadedSummary)) =>
    \A panel \in {outputs[CHART_URBAN].bars1, outputs[CHART_URBAN].bars2} :
      \A i \in DOMAIN panel :
        \A c \in Range(order) :
          panel[i].x = labels[c] => panel[i].color = colors[c]

ExpectedFill(category) ==
  CASE category = "urban_core" -> "#d62728"
    [] category = "inner_suburban" -> "#ff7f0e"
    [] category = "outer_suburban" -> "#2ca02c"
    [] OTHER -> "#7f7f7f"

AfterMapClassification == {"map3", "bar", "scatter", "table", "listing", "done"}

\* C5: with folium, the classification map is always saved (no row and no
\* value makes it fail or skip), it has one feature per row of the table, in
\* order, and a feature is red, orange or green for the three named classes
\* and gray for any other value, 'unknown' and a missing value included.
C5_CategoricalMapShowsEveryRow ==
  /\ (HAS_FOLIUM /\ pc \in AfterMapClassification) =>
       MAP_CLASSIFICATION \in written
  /\ MAP_CLASSIFICATION \in written =>
       LET features == outputs[MAP_CLASSIFICATION].features IN
       /\ Len(features) = Len(ra)
       /\ \A i \in DOMAIN ra :
            /\ features[i].response_area_id = ra[i].response_area_id
            /\ features[i].fillColor = ExpectedFill(ra[i].urban_class)

\* A saved classification map with a feature of a named class and one of an
\* unmapped class.
C5_Witness ==
  /\ MAP_CLASSIFICATION \in written
  /\ \E i \in DOMAIN ra : ra[i].urban_class = "rural"
  /\ \E i \in DOMAIN ra : ra[i].urban_class = "urban_core"

ChartSteps == {"bar", "scatter", "table", "listing", "done"}

\* C6 as stated: a run without folium saves no map file, never has printed
\* more than one notice, and, once its inputs are loaded, ends having
\* printed one notice and run the three chart renderers to completion.
C6_OneNoticeAndChartsComplete ==
  ~foliumInstalled =>
    /\ written \cap MapFiles = {}
    /\ notices <= 1
    /\ (pc \in Ended /\ ra # <<>>) => (notices = 1 /\ pc = "done")

\* C6, amended: without folium a run never enters a map function and saves
\* no map file; it prints the import-time notice and, once past the maps,
\* exactly one more notice from main (two in all, none per map); the skip
\* raises nothing and main goes on to the bar chart.
C6_TwoNoticesNoMaps ==
  [][~foliumInstalled =>
       /\ written' \cap MapFiles = {}
       /\ pc' \notin {"map1", "map2", "map3"}
       /\ pc = "maps" => pc' = "bar" /\ outputs' = outputs
       /\ notices' = CASE pc' = "import" -> 0
                       [] pc' \in {"load", "makedirs", "maps"} -> 1
                       [] pc' \in ChartSteps -> 2
                       [] pc' = "aborted" -> IF ra' = <<>> THEN 1 ELSE 2]_vars

\* A run without folium that finished, having printed both notices.
C6_Witness ==
  /\ ~foliumInstalled
  /\ pc = "done"
  /\ notices = 2
  /\ {CHART_URBAN, CHART_HOUSING, TABLE_SUMMARY} \subseteq written

NoValidRow(gdf, column) ==
  \A i \in DOMAIN gdf : ~(notna(gdf[i][column]) /\ gdf[i][column][1] > 0)

ChoroplethColumn(here) ==
  IF here = "map1" THEN "incidents_per_1000_pop" ELSE "pct_single_family"

\* C7 as stated: a run in which a choropleth map was skipped with a warning
\* goes on through every later step, so it does not abort.
C7_RunContinuesToTheEnd == warnings >= 1 => pc # "aborted"

\* C7, amended: when no row has a metric value > 0, create_choropleth_map
\* prints one warning, saves nothing (a file of that name left by an earlier
\* run stays as it was), raises nothing, and main goes on to its next
\* statement; whether the later steps complete is decided by those steps.
C7_EmptyMapIsSkippedWithWarning ==
  [][(pc \in {"map1", "map3"} /\ HAS_FOLIUM
        /\ NoValidRow(ra, ChoroplethColumn(pc))) =>
       /\ warnings' = warnings + 1
       /\ outputs' = outputs
       /\ written' = written
       /\ pc' = IF pc = "map1" THEN "map2" ELSE "bar"]_vars

\* A run that skipped a map with a warning and still reached the end.
C7_Witness ==
  /\ warnings >= 1
  /\ pc = "done"
  /\ MAP_PER_CAPITA \notin written

\* C8 as stated: no step removes a file, a run whose GeoJSON input is
\* readable leaves the output directory in existence, and a run after a
\* completed run completes.
C8_DirCreatedNothingRemoved ==
  [][/\ DOMAIN outputs \subseteq DOMAIN outputs'
     /\ (pc' \in Ended /\ Readable(geojson)) => dirExists'
     /\ (pc' \in Ended /\ pc \notin Ended /\ lastOutcome = "done") =>
          pc' = "done"]_vars

\* C8, amended: no step removes a file or the directory; a run started
\* without the directory aborts in load_data and leaves it absent, so
\* os.makedirs always finds the directory present, changes nothing and never
\* fails; and a run over the files an earlier run left ends as that run did.
C8_NothingRemovedRerunRepeats ==
  [][/\ DOMAIN outputs \subseteq DOMAIN outputs'
     /\ dirExists => dirExists'
     /\ (pc = "load" /\ ~dirExists) => (pc' = "aborted" /\ ~dirExists')
     /\ pc = "makedirs" =>
          (dirExists /\ pc' = "maps" /\ outputs' = outputs)
     /\ (pc' \in Ended /\ pc \notin Ended /\ lastOutcome # "none") =>
          pc' = lastOutcome]_vars

\* A second run completed over the files of the first, a file that no run
\* writes still in place.
C8_Witness ==
  /\ lastOutcome = "done"
  /\ pc = "done"
  /\ "statistical_tests.txt" \in DOMAIN outputs
  /\ written # {}

Steps ==
  <<"import", "load", "makedirs", "maps", "map1", "map2", "map3", "bar",
    "scatter", "table", "listing", "done">>

Pos(step) == CHOOSE k \in DOMAIN Steps : Steps[k] = step

AllowedMoves ==
  {<<"import", "load">>, <<"load", "makedirs">>, <<"load", "aborted">>,
   <<"makedirs", "maps">>, <<"maps", "map1">>, <<"maps", "bar">>,
   <<"map1", "map2">>, <<"map2", "map3">>, <<"map3", "bar">>,
   <<"bar", "scatter">>, <<"bar", "aborted">>, <<"scatter", "table">>,
   <<"scatter", "aborted">>, <<"table", "listing">>, <<"listing", "done">>,
   <<"done", "import">>, <<"aborted", "import">>}

StepFile ==
  [map1 |-> MAP_PER_CAPITA, map2 |-> MAP_CLASSIFICATION, map3 |-> MAP_HOUSING,
   bar |-> CHART_URBAN, scatter |-> CHART_HOUSING, table |-> TABLE_SUMMARY]

\* C9: main moves only along load, makedirs, the three maps (or the skip),
\* bar chart, scatter plot, table image, listing; a step's file is saved
\* before the next step starts and never earlier; a failing step saves
\* nothing, no step runs after it, and the files the earlier steps saved stay
\* as they were saved.
C9_FixedOrderNoRollback ==
  [][/\ <<pc, pc'>> \in AllowedMoves
     /\ pc' = "aborted" => (outputs' = outputs /\ written' = written)
     /\ pc \in Ended => outputs' = outputs
     /\ pc \notin Ended =>
          \A f \in written :
            f \in written' /\ f \in DOMAIN outputs' /\ outputs'[f] = outputs[f]
     /\ pc' \notin Ended =>
          \A s \in DOMAIN StepFile :
            /\ StepFile[s] \in written' => Pos(s) < Pos(pc')
            /\ (s \in {"bar", "scatter", "table"} /\ Pos(s) < Pos(pc')) =>
                 StepFile[s] \in written']_vars

\* The scatter plot failed after the maps and the bar chart were saved.
C9_Witness ==
  /\ pc = "aborted"
  /\ {MAP_CLASSIFICATION, CHART_URBAN} \subseteq written
  /\ {MAP_CLASSIFICATION, CHART_URBAN} \subseteq DOMAIN outputs
  /\ CHART_HOUSING \notin written

\* C10: after create_bar_chart returns, main's summary table is the table
\* that was loaded, and the table image shows the loaded urban_class of every
\* row.
C10_SummaryTableUnchanged ==
  /\ pc \in {"scatter", "table", "listing", "done"} =>
       summary_urban = LoadedSummary
  /\ TABLE_SUMMARY \in written =>
       outputs[TABLE_SUMMARY].cellText
         = [i \in DOMAIN LoadedSummary |-> LoadedSummary[i].urban_class]

====
